---- MODULE Spec2Model ----
(***************************************************************************)
(* photo_organizer.py: a watcher that copies media files into              *)
(* <output>/<year>/<YYYY-MM-DD>/<basename>.                                *)
(*                                                                         *)
(* A path is a sequence of components, a component is a sequence of        *)
(* one-character strings (so os.path.splitext and str.lower are computed   *)
(* character by character).  A date string (an EXIF tag, a container tag,  *)
(* a directory name) is a sequence of one-character strings too.           *)
(* Modification times are POSIX seconds; the local zone is UTC.            *)
(***************************************************************************)
EXTENDS Integers, Sequences, FiniteSets, TLC

(***************************************************************************)
(* Characters                                                              *)
(***************************************************************************)
UpperChars == <<"A","B","C","D","E","F","G","H","I","J","K","L","M",
                "N","O","P","Q","R","S","T","U","V","W","X","Y","Z">>

LowerChars == <<"a","b","c","d","e","f","g","h","i","j","k","l","m",
                "n","o","p","q","r","s","t","u","v","w","x","y","z">>

DigitChars == <<"0","1","2","3","4","5","6","7","8","9">>

\* str.lower() on one character
LowerChar(c) ==
    IF \E i \in 1..Len(UpperChars) : UpperChars[i] = c
    THEN LowerChars[CHOOSE i \in 1..Len(UpperChars) : UpperChars[i] = c]
    ELSE c

\* str.lower()
Lower(s) == [i \in 1..Len(s) |-> LowerChar(s[i])]

IsDigit(c) == \E i \in 1..Len(DigitChars) : DigitChars[i] = c

DigitVal(c) == (CHOOSE i \in 1..Len(DigitChars) : DigitChars[i] = c) - 1

(***************************************************************************)
(* os.path                                                                 *)
(***************************************************************************)
\* os.path.basename: the last component of the path
Basename(path) == path[Len(path)]

\* os.path.join(dir, name)
Join(dir, name) == Append(dir, name)

\* str.rfind('.') on a component: 0 when there is no dot
RFindDot(name) ==
    IF \E i \in 1..Len(name) : name[i] = "."
    THEN CHOOSE i \in 1..Len(name) :
            name[i] = "." /\ \A j \in (i+1)..Len(name) : name[j] # "."
    ELSE 0

\* os.path.splitext(path)[1]: the part of the basename from its last dot,
\* empty when there is no dot or only leading dots come before it
Splitext(path) ==
    LET name == Basename(path)
        dotIndex == RFindDot(name)
    IN  IF dotIndex > 0 /\ \E i \in 1..(dotIndex - 1) : name[i] # "."
        THEN SubSeq(name, dotIndex, Len(name))
        ELSE <<>>

(***************************************************************************)
(* PhotoOrganizer.supported_extensions                                     *)
(***************************************************************************)
ImageExtensions ==
    { <<".","j","p","g">>, <<".","j","p","e","g">>, <<".","p","n","g">>,
      <<".","g","i","f">>, <<".","b","m","p">>, <<".","t","i","f","f">>,
      <<".","h","e","i","c">>, <<".","w","e","b","p">> }

VideoExtensions ==
    { <<".","m","p","4">>, <<".","m","o","v">>, <<".","a","v","i">>,
      <<".","m","k","v">>, <<".","w","e","b","m">>, <<".","m","p","g">>,
      <<".","m","4","v">> }

\* a variant of FileExt that compares the extension as written
FileExtCaseSensitive(path) == Splitext(path)

\* file_ext = os.path.splitext(file_path)[1].lower()
FileExt(path) == Lower(Splitext(path))

(***************************************************************************)
(* datetime                                                                *)
(***************************************************************************)
\* the result of a strptime that raised ValueError
NoDate == [ok |-> FALSE]

MkDate(y, m, d, hh, mm, ss) ==
    [ok |-> TRUE, year |-> y, month |-> m, day |-> d,
     hour |-> hh, minute |-> mm, second |-> ss]

IsLeap(y) == (y % 4 = 0 /\ y % 100 # 0) \/ y % 400 = 0

DaysInMonth(y, m) ==
    IF m = 2 THEN (IF IsLeap(y) THEN 29 ELSE 28)
    ELSE IF m \in {4, 6, 9, 11} THEN 30 ELSE 31

\* a failed match
Fail == [ok |-> FALSE, val |-> 0, next |-> 0]

Match(v, n) == [ok |-> TRUE, val |-> v, next |-> n]

DigitAt(s, i) == i >= 1 /\ i <= Len(s) /\ IsDigit(s[i])

\* a literal character of the format; the compiled pattern ignores case
Lit(s, i, c) ==
    IF i >= 1 /\ i <= Len(s) /\ LowerChar(s[i]) = LowerChar(c)
    THEN Match(0, i + 1) ELSE Fail

\* white space of the format: \s+
Spaces(s, i) ==
    IF i >= 1 /\ i <= Len(s) /\ s[i] = " "
    THEN Match(0, CHOOSE j \in (i+1)..(Len(s)+1) :
                     /\ \A k \in i..(j-1) : s[k] = " "
                     /\ (j <= Len(s) => s[j] # " "))
    ELSE Fail

\* %Y: \d\d\d\d
FieldY(s, i) ==
    IF \A k \in 0..3 : DigitAt(s, i + k)
    THEN Match(1000 * DigitVal(s[i]) + 100 * DigitVal(s[i+1])
               + 10 * DigitVal(s[i+2]) + DigitVal(s[i+3]), i + 4)
    ELSE Fail

\* a numeric field of one or two digits: the two-digit alternatives of the
\* pattern come first, then the one-digit alternative
Field(s, i, two, one) ==
    IF DigitAt(s, i) /\ DigitAt(s, i + 1)
       /\ <<DigitVal(s[i]), DigitVal(s[i+1])>> \in two
    THEN Match(10 * DigitVal(s[i]) + DigitVal(s[i+1]), i + 2)
    ELSE IF DigitAt(s, i) /\ DigitVal(s[i]) \in one
    THEN Match(DigitVal(s[i]), i + 1)
    ELSE Fail

\* %m: 1[0-2]|0[1-9]|[1-9]
FieldM(s, i) ==
    Field(s, i, ({1} \X (0..2)) \cup ({0} \X (1..9)), 1..9)

\* %d: 3[0-1]|[1-2]\d|0[1-9]|[1-9]| [1-9]
FieldD(s, i) ==
    IF i >= 1 /\ i <= Len(s) /\ s[i] = " "
    THEN (IF DigitAt(s, i + 1) /\ DigitVal(s[i+1]) \in 1..9
          THEN Match(DigitVal(s[i+1]), i + 2) ELSE Fail)
    ELSE Field(s, i, ({3} \X (0..1)) \cup ((1..2) \X (0..9)) \cup ({0} \X (1..9)),
               1..9)

\* %H: 2[0-3]|[0-1]\d|\d
FieldH(s, i) ==
    Field(s, i, ({2} \X (0..3)) \cup ((0..1) \X (0..9)), 0..9)

\* %M: [0-5]\d|\d
FieldMin(s, i) == Field(s, i, (0..5) \X (0..9), 0..9)

\* %S: 6[0-1]|[0-5]\d|\d
FieldS(s, i) ==
    Field(s, i, ({6} \X (0..1)) \cup ((0..5) \X (0..9)), 0..9)

\* %f: [0-9]{1,6}
FieldF(s, i) ==
    IF DigitAt(s, i)
    THEN LET j == CHOOSE j \in (i+1)..(Len(s)+1) :
                     /\ \A k \in i..(j-1) : IsDigit(s[k])
                     /\ (j <= Len(s) => ~IsDigit(s[j]))
         IN  IF j - i <= 6 THEN Match(0, j) ELSE Fail
    ELSE Fail

\* the datetime constructor: ValueError outside the calendar
Construct(y, m, d, hh, mm, ss) ==
    IF y >= 1 /\ m \in 1..12 /\ d >= 1 /\ d <= DaysInMonth(y, m) /\ ss <= 59
    THEN MkDate(y, m, d, hh, mm, ss)
    ELSE NoDate

\* datetime.strptime(date_str, '%Y:%m:%d %H:%M:%S'); NoDate is ValueError
StrptimeExif(s) ==
    LET y  == FieldY(s, 1)
        c1 == Lit(s, y.next, ":")
        m  == FieldM(s, c1.next)
        c2 == Lit(s, m.next, ":")
        d  == FieldD(s, c2.next)
        sp == Spaces(s, d.next)
        hh == FieldH(s, sp.next)
        c3 == Lit(s, hh.next, ":")
        mm == FieldMin(s, c3.next)
        c4 == Lit(s, mm.next, ":")
        ss == FieldS(s, c4.next)
    IN  IF ss.ok /\ ss.next = Len(s) + 1
        THEN Construct(y.val, m.val, d.val, hh.val, mm.val, ss.val)
        ELSE NoDate

\* datetime.strptime(date_str, '%Y-%m-%dT%H:%M:%S.%fZ')
StrptimeVideo(s) ==
    LET y  == FieldY(s, 1)
        c1 == Lit(s, y.next, "-")
        m  == FieldM(s, c1.next)
        c2 == Lit(s, m.next, "-")
        d  == FieldD(s, c2.next)
        t  == Lit(s, d.next, "T")
        hh == FieldH(s, t.next)
        c3 == Lit(s, hh.next, ":")
        mm == FieldMin(s, c3.next)
        c4 == Lit(s, mm.next, ":")
        ss == FieldS(s, c4.next)
        dt == Lit(s, ss.next, ".")
        f  == FieldF(s, dt.next)
        z  == Lit(s, f.next, "Z")
    IN  IF z.ok /\ z.next = Len(s) + 1
        THEN Construct(y.val, m.val, d.val, hh.val, mm.val, ss.val)
        ELSE NoDate

\* datetime.fromtimestamp(t): the civil date of POSIX second t (zone UTC)
FromTimestamp(t) ==
    LET days == t \div 86400
        secs == t % 86400
        z    == days + 719468
        era  == z \div 146097
        doe  == z - era * 146097
        yoe  == (doe - doe \div 1460 + doe \div 36524 - doe \div 146096) \div 365
        doy  == doe - (365 * yoe + yoe \div 4 - yoe \div 100)
        mp   == (5 * doy + 2) \div 153
        d    == doy - (153 * mp + 2) \div 5 + 1
        m    == IF mp < 10 THEN mp + 3 ELSE mp - 9
        y    == yoe + era * 400 + (IF m <= 2 THEN 1 ELSE 0)
    IN  MkDate(y, m, d, secs \div 3600, (secs % 3600) \div 60, secs % 60)

\* str(n) for n >= 0
RECURSIVE Str(_)
Str(n) ==
    IF n < 10 THEN <<DigitChars[n + 1]>>
    ELSE Append(Str(n \div 10), DigitChars[(n % 10) + 1])

\* a two-digit field of strftime (%m, %d)
Pad2(n) == <<DigitChars[(n \div 10) + 1], DigitChars[(n % 10) + 1]>>

\* file_date.strftime('%Y-%m-%d').  %Y of a year below 1000 is zero-padded
\* or not depending on the C library and interpreter; every date of the
\* model has a four-digit year, where all agree.
Strftime(d) == Str(d.year) \o <<"-">> \o Pad2(d.month) \o <<"-">> \o Pad2(d.day)

(***************************************************************************)
(* The file system.  fs maps each existing path to its node; the root <<>> *)
(* always exists and is not recorded.  A file's data stands for its bytes: *)
(* what PIL and ffprobe find in them is part of the data, so a copy has    *)
(* the tags of its source.                                                 *)
(***************************************************************************)
\* POSIX seconds of 2023-06-15T10:00:00 and of 2022-01-05T23:59:59
tJun15 == 19523 * 86400 + 10 * 3600
tJan5  == 18997 * 86400 + 86399

\* a directory; the model's clock stands at tJun15
DirNode == [kind |-> "dir", mtime |-> tJun15]

FileNode(data, mtime, readable) ==
    [kind |-> "file", data |-> data, mtime |-> mtime, readable |-> readable]

\* os.path.exists
Exists(f, p) == p = <<>> \/ p \in DOMAIN f

IsDir(f, p) == p = <<>> \/ (p \in DOMAIN f /\ f[p].kind = "dir")

IsFile(f, p) == p \in DOMAIN f /\ f[p].kind = "file"

Parent(p) == SubSeq(p, 1, Len(p) - 1)

Prefixes(p) == { SubSeq(p, 1, k) : k \in 1..Len(p) }

\* open(path, 'rb') succeeds
CanOpen(f, p) == IsFile(f, p) /\ f[p].readable

\* EXIF tag ids read by get_file_date
TagDateTimeOriginal == 36867

TagDateTime == 306

\* a variant of Parsed where a string that does not parse yields no date
\* instead of an exception
ParsedNone(d) == [found |-> TRUE, date |-> d]

\* return datetime.strptime(date_str, ...): the date when the string parses;
\* a ValueError is swallowed by the except around it
Parsed(d) == IF d.ok THEN [found |-> TRUE, date |-> d] ELSE [found |-> FALSE, date |-> NoDate]

\* a variant of ExifDate that looks for DateTime first
ExifDateTimeFirst(exif) ==
    IF TagDateTime \in DOMAIN exif
    THEN Parsed(StrptimeExif(exif[TagDateTime]))
    ELSE IF TagDateTimeOriginal \in DOMAIN exif
    THEN Parsed(StrptimeExif(exif[TagDateTimeOriginal]))
    ELSE [found |-> FALSE, date |-> NoDate]

\* if exif_data: for tag_id in [36867, 306]: if tag_id in exif_data: return ...
\* the first of the two tags that is present is parsed, and only that one
ExifDate(exif) ==
    IF TagDateTimeOriginal \in DOMAIN exif
    THEN Parsed(StrptimeExif(exif[TagDateTimeOriginal]))
    ELSE IF TagDateTime \in DOMAIN exif
    THEN Parsed(StrptimeExif(exif[TagDateTime]))
    ELSE [found |-> FALSE, date |-> NoDate]

\* the body of the image branch's try; [found |-> FALSE] falls through to
\* the mtime fallback
ImageDate(f, p) ==
    IF CanOpen(f, p) /\ f[p].data.image /\ f[p].data.getexif
    THEN ExifDate(f[p].data.exif)
    ELSE [found |-> FALSE, date |-> NoDate]

\* the body of the video branch's try: ffmpeg.probe, then
\* probe['format']['tags']['creation_time']
VideoDate(f, p) ==
    IF CanOpen(f, p) /\ f[p].data.probe /\ f[p].data.hastags
       /\ "creation_time" \in DOMAIN f[p].data.vtags
    THEN Parsed(StrptimeVideo(f[p].data.vtags["creation_time"]))
    ELSE [found |-> FALSE, date |-> NoDate]

\* file_mtime = os.path.getmtime(file_path);
\* return datetime.fromtimestamp(file_mtime)
MtimeDate(f, p) ==
    IF Exists(f, p) /\ p # <<>>
    THEN [raised |-> FALSE, date |-> FromTimestamp(f[p].mtime), via |-> "mtime"]
    ELSE [raised |-> TRUE, date |-> NoDate, via |-> "raise"]

\* the date of the embedded tag when one was found: which branch of
\* get_file_date runs is decided by the extension
Embedded(f, p, file_ext) ==
    IF file_ext \in ImageExtensions
    THEN [via |-> "exif"] @@ ImageDate(f, p)
    ELSE IF file_ext \in VideoExtensions
    THEN [via |-> "video"] @@ VideoDate(f, p)
    ELSE [via |-> "none", found |-> FALSE, date |-> NoDate]

\* the return inside the try, or the fallback after it
Resolve(f, p, r) ==
    IF r.found
    THEN [raised |-> FALSE, date |-> r.date, via |-> r.via]
    ELSE MtimeDate(f, p)

\* PhotoOrganizer.get_file_date: [raised, date, via]
get_file_date(f, p) == Resolve(f, p, Embedded(f, p, FileExt(p)))

(***************************************************************************)
(* PhotoOrganizer.organize_file                                            *)
(***************************************************************************)
\* a variant of Makedirs without exist_ok: it raises when the directory is
\* there already
MakedirsStrict(f, d) ==
    IF Exists(f, d) \/ \E q \in Prefixes(d) : IsFile(f, q)
    THEN [raised |-> TRUE, fs |-> f]
    ELSE [raised |-> FALSE,
          fs |-> [q \in (Prefixes(d) \ DOMAIN f) |-> DirNode] @@ f]

\* os.makedirs(dest_dir, exist_ok=True): every missing ancestor is created;
\* it raises when a file is in the way
Makedirs(f, d) ==
    IF \E q \in Prefixes(d) : IsFile(f, q)
    THEN [raised |-> TRUE, fs |-> f]
    ELSE [raised |-> FALSE,
          fs |-> [q \in (Prefixes(d) \ DOMAIN f) |-> DirNode] @@ f]

\* a variant of CopyFile that moves the file
CopyFileMove(f, src, target) ==
    IF ~CanOpen(f, src) \/ src = target \/ ~IsDir(f, Parent(target))
       \/ IsDir(f, target)
    THEN [raised |-> TRUE, fs |-> f]
    ELSE [raised |-> FALSE,
          fs |-> [ q \in (DOMAIN f \ {src}) \cup {target} |->
                     IF q = target THEN f[src] ELSE f[q] ]]

\* a variant of CopyFile that leaves the copy with the time of the copying
CopyFileNow(f, src, target) ==
    IF ~CanOpen(f, src) \/ src = target \/ ~IsDir(f, Parent(target))
       \/ IsDir(f, target)
    THEN [raised |-> TRUE, fs |-> f]
    ELSE [raised |-> FALSE,
          fs |-> (target :> FileNode(f[src].data, tJun15, f[src].readable)) @@ f]

\* shutil.copy2(src, dst): the bytes, then the mode and the times; an
\* existing dst is opened with 'wb' and so overwritten
CopyFile(f, src, target) ==
    IF ~CanOpen(f, src) \/ src = target \/ ~IsDir(f, Parent(target))
       \/ IsDir(f, target)
    THEN [raised |-> TRUE, fs |-> f]
    ELSE [raised |-> FALSE,
          fs |-> (target :> FileNode(f[src].data, f[src].mtime,
                                     f[src].readable)) @@ f]

\* if os.path.isdir(dst): dst = os.path.join(dst, os.path.basename(src))
Copy2(f, src, dst) ==
    CopyFile(f, src, IF IsDir(f, dst) THEN Join(dst, Basename(src)) ELSE dst)

\* dest_dir = os.path.join(self.output_path, year_dir, date_dir)
DestDir(out, date) == out \o << Str(date.year), Strftime(date) >>

\* a variant of DestPath that lower-cases the file name
DestPathLower(out, date, path) == Join(DestDir(out, date), Lower(Basename(path)))

\* dest_path = os.path.join(dest_dir, os.path.basename(file_path))
DestPath(out, date, path) == Join(DestDir(out, date), Basename(path))

\* a variant of organize_file without the existence check
DestExistsNever(f, dest_path) == FALSE

\* a variant of DestExists that asks for a regular file
DestExistsFile(f, dest_path) == IsFile(f, dest_path)

\* if os.path.exists(dest_path): ... return
DestExists(f, dest_path) == Exists(f, dest_path)

\* a variant of NeedMakedirs that forgets the dry-run flag
NeedMakedirsAlways(f, dest_dir, dry) == ~Exists(f, dest_dir)

\* if not os.path.exists(dest_dir) and not self.dry_run
NeedMakedirs(f, dest_dir, dry) == ~Exists(f, dest_dir) /\ ~dry

\* what a call reports: its outcome and what it computed on the way
Report(path, outcome, via, date, dest, f) ==
    [path |-> path, outcome |-> outcome, via |-> via, date |-> date,
     dest |-> dest, fs |-> f]

\* shutil.copy2(file_path, dest_path) and the log line after it, or the
\* except branch
AfterCopy(path, r, dest_path, cp) ==
    Report(path, IF cp.raised THEN "error" ELSE "copied", r.via, r.date,
           dest_path, cp.fs)

\* if self.dry_run: log "DRY RUN: Would copy"; else: copy
CopyStep(path, dry, r, dest_path, mk) ==
    IF mk.raised
    THEN Report(path, "error", r.via, r.date, dest_path, mk.fs)
    ELSE IF dry
    THEN Report(path, "dry_run", r.via, r.date, dest_path, mk.fs)
    ELSE AfterCopy(path, r, dest_path, Copy2(mk.fs, path, dest_path))

\* the directory is created when it is missing and the run is not dry
MkdirStep(f, dest_dir, dry) ==
    IF NeedMakedirs(f, dest_dir, dry)
    THEN Makedirs(f, dest_dir)
    ELSE [raised |-> FALSE, fs |-> f]

\* the existence check, then the directory and the copy
PlaceAt(f, path, dry, r, dest_dir, dest_path) ==
    IF DestExists(f, dest_path)
    THEN Report(path, "skip_exists", r.via, r.date, dest_path, f)
    ELSE CopyStep(path, dry, r, dest_path, MkdirStep(f, dest_dir, dry))

\* the try block of organize_file once get_file_date has returned r
Place(f, path, dry, out, r) ==
    IF r.raised
    THEN Report(path, "error", r.via, NoDate, <<>>, f)
    ELSE IF ~r.date.ok
    THEN Report(path, "no_date", r.via, NoDate, <<>>, f)
    ELSE PlaceAt(f, path, dry, r, DestDir(out, r.date), DestPath(out, r.date, path))

\* PhotoOrganizer.organize_file(file_path) on file system f: the report of
\* the call, with the file system it leaves in field fs.  Outcomes:
\* "unsupported", "error" (the except branch), "no_date", "skip_exists",
\* "dry_run", "copied"
organize_file(f, path, dry, out) ==
    IF FileExt(path) \notin (ImageExtensions \cup VideoExtensions)
    THEN Report(path, "unsupported", "none", NoDate, <<>>, f)
    ELSE Place(f, path, dry, out, get_file_date(f, path))

(***************************************************************************)
(* Names, data and the bounds of the model                                 *)
(***************************************************************************)
cIn  == <<"i","n">>
cIn2 == <<"i","n","2">>
cSub == <<"s","u","b">>
cOut == <<"o","u","t">>

nLowerJpg == <<"a",".","j","p","g">>
nUpperJpg == <<"a",".","J","P","G">>
nPng      == <<"p",".","p","n","g">>
nMp4      == <<"c",".","m","p","4">>
nTxt      == <<"n",".","t","x","t">>
nNoExt    == <<"r","a","w">>
nHidden   == <<".","j","p","g">>
nTwoDots  == <<"x",".","t","x","t",".","M","o","V">>
nOther    == <<"b",".","j","p","g">>
nDirJpg   == <<"d",".","j","p","g">>

\* "2022:01:05 08:30:00"
sExifJan5 == <<"2","0","2","2",":","0","1",":","0","5"," ",
               "0","8",":","3","0",":","0","0">>
\* "2022:01:05 21:00:00"
sExifJan5Late == <<"2","0","2","2",":","0","1",":","0","5"," ",
                   "2","1",":","0","0",":","0","0">>
\* "2021:12:31 23:59:00"
sExifDec31 == <<"2","0","2","1",":","1","2",":","3","1"," ",
                "2","3",":","5","9",":","0","0">>
\* "0000:00:00 00:00:00", what a camera with no clock writes
sExifZero == <<"0","0","0","0",":","0","0",":","0","0"," ",
               "0","0",":","0","0",":","0","0">>
\* "2021-12-31T23:59:00.000000Z"
sVideoDec31 == <<"2","0","2","1","-","1","2","-","3","1","T",
                 "2","3",":","5","9",":","0","0",".",
                 "0","0","0","0","0","0","Z">>
\* "2021-12-31 23:59:00", not the layout the code parses
sVideoPlain == <<"2","0","2","1","-","1","2","-","3","1"," ",
                 "2","3",":","5","9",":","0","0">>

NoTags == [t \in {} |-> <<>>]

Data(id, image, getexif, exif, probe, hastags, vtags) ==
    [id |-> id, image |-> image, getexif |-> getexif, exif |-> exif,
     probe |-> probe, hastags |-> hastags, vtags |-> vtags]

Jpeg(id, exif) == Data(id, TRUE, TRUE, exif, FALSE, FALSE, NoTags)

Video(id, hastags, vtags) == Data(id, FALSE, FALSE, NoTags, TRUE, hastags, vtags)

\* both tags, DateTimeOriginal on Jan 5 and DateTime on Dec 31
dBoth == Jpeg(1, (TagDateTimeOriginal :> sExifJan5) @@ (TagDateTime :> sExifDec31))
\* DateTime only
dDateTime == Jpeg(2, (TagDateTime :> sExifJan5Late))
\* DateTimeOriginal does not parse, DateTime would
dBadOriginal == Jpeg(3, (TagDateTimeOriginal :> sExifZero) @@ (TagDateTime :> sExifDec31))
\* a JPEG with no EXIF block
dNoExif == Jpeg(4, NoTags)
\* a PNG: the image class has no _getexif
dPngData == Data(5, TRUE, FALSE, NoTags, FALSE, FALSE, NoTags)
\* bytes that are no media container at all
dGarbage == Data(6, FALSE, FALSE, NoTags, FALSE, FALSE, NoTags)
dVideo == Video(7, TRUE, ("creation_time" :> sVideoDec31))
dVideoNoTags == Video(8, FALSE, NoTags)
dVideoPlain == Video(9, TRUE, ("creation_time" :> sVideoPlain))
dVideoOther == Video(10, TRUE, ("encoder" :> sVideoPlain))

AllData == { dBoth, dDateTime, dBadOriginal, dNoExif, dPngData, dGarbage,
             dVideo, dVideoNoTags, dVideoPlain, dVideoOther }

AllNames == { nLowerJpg, nUpperJpg, nPng, nMp4, nTxt, nNoExt, nHidden, nTwoDots }

Mtimes == { tJun15, tJan5 }

\* bounds of the model
MaxEnv == 1

(***************************************************************************)
(* State                                                                   *)
(***************************************************************************)
VARIABLES
    fs,          \* the file system
    fs0,         \* the file system when the program started
    config,      \* what is at args.config
    args,        \* the command line: dry_run, scan_existing
    pc,          \* where main is
    idx,         \* the position of main's current for loop
    walkDirs,    \* os.walk: directories still to list
    walkFiles,   \* os.walk: files listed and not yet organized
    observers,   \* main's list observers: the state of each one
    queues,      \* the events each observer has still to dispatch
    last,        \* the organize_file call the last step made, if any
    event,       \* the event the last step dispatched, if any
    interrupted, \* KeyboardInterrupt was raised in the main thread
    envOps,      \* changes made to the watched trees from outside
    changed,     \* the watched trees were changed from outside
    scanErr,     \* an organize_file call of the bulk scan logged an error
    pending,     \* files created from outside and not yet passed to organize_file
    threads      \* the organize_file call each observer thread is in, step by step

vars == << fs, fs0, config, args, pc, idx, walkDirs, walkFiles, observers,
           queues, last, event, interrupted, envOps, changed, scanErr,
           pending, threads >>

NoCall == [path |-> <<>>, outcome |-> "none", via |-> "none",
           date |-> NoDate, dest |-> <<>>]

NoEvent == [type |-> "none", is_directory |-> FALSE,
            src_path |-> <<>>, dest_path |-> <<>>]

\* the part of a report that is kept in last
Brief(rep) == [path |-> rep.path, outcome |-> rep.outcome, via |-> rep.via,
               date |-> rep.date, dest |-> rep.dest]

\* p lies below directory root
IsUnder(p, root) == Len(p) > Len(root) /\ SubSeq(p, 1, Len(root)) = root

\* config.get('watch_paths', [])
watch_paths == IF config.watch_paths.present THEN config.watch_paths.value ELSE <<>>

\* config.get('output_path', '')
output_path == IF config.output_path.present
               THEN config.output_path.value
               ELSE [empty |-> TRUE, path |-> <<>>]

\* organizer.output_path once the organizer exists
OutRoot == output_path.path

(***************************************************************************)
(* Initial states                                                          *)
(***************************************************************************)
InitDirs == { <<cIn>>, <<cIn, cSub>>, <<cIn2>> }

OutDay == <<cOut, Str(2022), <<"2","0","2","2","-","0","1","-","0","5">> >>

\* files a run may start with: path and node
fBoth       == << <<cIn, nLowerJpg>>,       FileNode(dBoth, tJun15, TRUE) >>
fSubSameDay == << <<cIn, cSub, nLowerJpg>>, FileNode(dDateTime, tJun15, TRUE) >>
fText       == << <<cIn, nTxt>>,            FileNode(dGarbage, tJun15, TRUE) >>
fVideo      == << <<cIn2, nMp4>>,           FileNode(dVideo, tJun15, TRUE) >>
fUnreadable == << <<cIn, nUpperJpg>>,       FileNode(dNoExif, tJan5, FALSE) >>
fPlaced     == << Join(OutDay, nLowerJpg),  FileNode(dGarbage, tJun15, TRUE) >>
fSubVideo   == << <<cIn, cSub, nMp4>>,      FileNode(dVideoNoTags, tJan5, TRUE) >>
\* files below in/out, which is the output root of one configuration: one
\* that belongs elsewhere, one that is where it belongs
fNested     == << <<cIn, cOut, nLowerJpg>>,  FileNode(dBoth, tJun15, TRUE) >>
fSelf       == << << cIn, cOut, Str(2023), <<"2","0","2","3","-","0","6","-","1","5">>, nPng >>,
                  FileNode(dPngData, tJun15, TRUE) >>

GoodOut == [present |-> TRUE, value |-> [empty |-> FALSE, path |-> <<cOut>>]]

\* an output root inside the watched tree
InOut == [present |-> TRUE, value |-> [empty |-> FALSE, path |-> <<cIn, cOut>>]]

Watch(v) == [present |-> TRUE, value |-> v]

\* the trees a run may start with
InitTrees ==
    { {},
      { fBoth, fSubSameDay, fText },
      { fBoth, fUnreadable },
      { fSubSameDay, fPlaced },
      { fVideo, fText },
      { fUnreadable, fVideo, fSubSameDay },
      { fSubVideo } }

\* the trees of a run whose output root lies inside the watched root
NestedTrees ==
    { { fNested, fSelf, fSubVideo },
      { fBoth, fSubSameDay, fText } }

\* the trees a configuration is run on
TreesOf(c) == IF c.output_path = InOut THEN NestedTrees ELSE InitTrees

\* the file system holding the directories ds and the files fl, each with
\* its ancestors
MkFs(ds, fl) ==
    LET paths == { e[1] : e \in fl }
        dirs  == ds \cup UNION { Prefixes(Parent(q)) : q \in paths }
    IN  [ q \in paths \cup dirs |->
            IF q \in paths THEN (CHOOSE e \in fl : e[1] = q)[2] ELSE DirNode ]

Configs ==
    { [loadable |-> TRUE, watch_paths |-> Watch(w), output_path |-> GoodOut]
        : w \in { << <<cIn>> >>, << <<cIn>>, <<cIn2>> >>, << <<cIn>>, <<cIn>> >> } }
    \cup
    { [loadable |-> TRUE, watch_paths |-> Watch(<< <<cIn>> >>), output_path |-> InOut] }
    \cup
    { [loadable |-> FALSE, watch_paths |-> Watch(<< <<cIn>> >>), output_path |-> GoodOut],
      [loadable |-> TRUE, watch_paths |-> [present |-> FALSE, value |-> <<>>],
       output_path |-> GoodOut],
      [loadable |-> TRUE, watch_paths |-> Watch(<<>>), output_path |-> GoodOut],
      [loadable |-> TRUE, watch_paths |-> Watch(<< <<cIn>> >>),
       output_path |-> [present |-> FALSE, value |-> [empty |-> TRUE, path |-> <<>>]]],
      [loadable |-> TRUE, watch_paths |-> Watch(<< <<cIn>> >>),
       output_path |-> [present |-> TRUE, value |-> [empty |-> TRUE, path |-> <<>>]]] }

Init ==
    /\ config \in Configs
    /\ \E fl \in TreesOf(config) : fs = MkFs(InitDirs, fl)
    /\ fs0 = fs
    /\ args \in [dry_run : BOOLEAN, scan_existing : BOOLEAN]
    /\ pc = "start"
    /\ idx = 1
    /\ walkDirs = {}
    /\ walkFiles = {}
    /\ observers = <<>>
    /\ queues = <<>>
    /\ last = NoCall
    /\ event = NoEvent
    /\ interrupted = FALSE
    /\ envOps = 0
    /\ changed = FALSE
    /\ scanErr = FALSE
    /\ pending = {}
    /\ threads = <<>>

(***************************************************************************)
(* main                                                                    *)
(***************************************************************************)
Quiet == last' = NoCall /\ event' = NoEvent

\* with open(args.config) as f: config = json.load(f); on an exception
\* main logs the error and returns
LoadConfig ==
    /\ pc = "start"
    /\ pc' = IF config.loadable THEN "loaded" ELSE "done"
    /\ Quiet
    /\ UNCHANGED << threads, pending, fs, fs0, config, args, idx, walkDirs, walkFiles, observers,
                    queues, interrupted, envOps, changed, scanErr >>

\* a variant of ConfigRejected that wants both keys to be missing
ConfigRejectedBoth == watch_paths = <<>> /\ output_path.empty

\* if not watch_paths or not output_path
ConfigRejected == watch_paths = <<>> \/ output_path.empty

\* the key check, the creation of the organizer and the choice of the
\* first loop
CheckConfig ==
    /\ pc = "loaded"
    /\ pc' = IF ConfigRejected THEN "done"
             ELSE IF args.scan_existing THEN "scan" ELSE "observe"
    /\ idx' = 1
    /\ Quiet
    /\ UNCHANGED << threads, pending, fs, fs0, config, args, walkDirs, walkFiles, observers,
                    queues, interrupted, envOps, changed, scanErr >>

\* for directory in watch_paths: organizer.process_directory(directory);
\* the call starts os.walk at the directory
ScanNextRoot ==
    /\ pc = "scan"
    /\ walkDirs = {} /\ walkFiles = {}
    /\ idx <= Len(watch_paths)
    /\ walkDirs' = { watch_paths[idx] }
    /\ idx' = idx + 1
    /\ Quiet
    /\ UNCHANGED << threads, pending, fs, fs0, config, args, pc, walkFiles, observers, queues,
                    interrupted, envOps, changed, scanErr >>

Children(f, d) == { q \in DOMAIN f : Len(q) = Len(d) + 1 /\ IsUnder(q, d) }

\* a variant of WalkListDir that does not descend into subdirectories
WalkListDirFlat(d) ==
    /\ pc = "scan"
    /\ walkFiles = {}
    /\ d \in walkDirs
    /\ walkFiles' = { q \in Children(fs, d) : IsFile(fs, q) }
    /\ walkDirs' = walkDirs \ {d}
    /\ Quiet
    /\ UNCHANGED << threads, pending, fs, fs0, config, args, pc, idx, observers, queues,
                    interrupted, envOps, changed, scanErr >>

\* os.walk lists one directory: its files are organized next, its
\* subdirectories are listed later; a directory that cannot be listed
\* yields nothing
WalkListDir(d) ==
    /\ pc = "scan"
    /\ walkFiles = {}
    /\ d \in walkDirs
    /\ IF IsDir(fs, d)
       THEN /\ walkFiles' = { q \in Children(fs, d) : IsFile(fs, q) }
            /\ walkDirs' = (walkDirs \ {d}) \cup { q \in Children(fs, d) : IsDir(fs, q) }
       ELSE /\ walkFiles' = {}
            /\ walkDirs' = walkDirs \ {d}
    /\ Quiet
    /\ UNCHANGED << threads, pending, fs, fs0, config, args, pc, idx, observers, queues,
                    interrupted, envOps, changed, scanErr >>

\* a variant of ScanOrganize where an error of organize_file leaves the scan
ScanOrganizeAbort(p) ==
    /\ pc = "scan"
    /\ p \in walkFiles
    /\ \E rep \in { organize_file(fs, p, args.dry_run, OutRoot) } :
           /\ fs' = rep.fs
           /\ last' = Brief(rep)
           /\ scanErr' = (scanErr \/ rep.outcome = "error")
           /\ pc' = IF rep.outcome = "error" THEN "crashed" ELSE pc
    /\ walkFiles' = walkFiles \ {p}
    /\ pending' = pending \ {p}
    /\ event' = NoEvent
    /\ UNCHANGED << threads, fs0, config, args, idx, walkDirs, observers, queues,
                    interrupted, envOps, changed >>

\* the body of process_directory's inner loop: self.organize_file(file_path)
ScanOrganize(p) ==
    /\ pc = "scan"
    /\ p \in walkFiles
    /\ \E rep \in { organize_file(fs, p, args.dry_run, OutRoot) } :
           /\ fs' = rep.fs
           /\ last' = Brief(rep)
           /\ scanErr' = (scanErr \/ rep.outcome = "error")
    /\ walkFiles' = walkFiles \ {p}
    /\ pending' = pending \ {p}
    /\ event' = NoEvent
    /\ UNCHANGED << threads, fs0, config, args, pc, idx, walkDirs, observers, queues,
                    interrupted, envOps, changed >>

\* the scan loop ends
ScanDone ==
    /\ pc = "scan"
    /\ walkDirs = {} /\ walkFiles = {}
    /\ idx > Len(watch_paths)
    /\ pc' = "observe"
    /\ idx' = 1
    /\ Quiet
    /\ UNCHANGED << threads, pending, fs, fs0, config, args, walkDirs, walkFiles, observers,
                    queues, interrupted, envOps, changed, scanErr >>

\* for path in watch_paths: observer = Observer(); observer.schedule(...);
\* observer.start(); observers.append(observer)
StartObserver ==
    /\ pc = "observe"
    /\ idx <= Len(watch_paths)
    /\ observers' = Append(observers, "running")
    /\ queues' = Append(queues, <<>>)
    /\ idx' = idx + 1
    /\ Quiet
    /\ UNCHANGED << threads, pending, fs, fs0, config, args, pc, walkDirs, walkFiles,
                    interrupted, envOps, changed, scanErr >>

\* main enters the try block and sleeps in while True
EnterMonitor ==
    /\ pc = "observe"
    /\ idx > Len(watch_paths)
    /\ pc' = "monitor"
    /\ Quiet
    /\ UNCHANGED << threads, pending, fs, fs0, config, args, idx, walkDirs, walkFiles, observers,
                    queues, interrupted, envOps, changed, scanErr >>

\* where a KeyboardInterrupt raised at pc takes main: the except clause
\* encloses the monitor loop only; elsewhere the exception leaves main
\* (organize_file and process_directory catch Exception, which
\* KeyboardInterrupt is not)
AfterInterrupt(at) == IF at = "monitor" THEN "stop" ELSE "crashed"

\* Ctrl+C: KeyboardInterrupt is raised in the main thread
KeyboardInterrupt ==
    /\ pc \in {"scan", "observe", "monitor"}
    /\ ~interrupted
    /\ interrupted' = TRUE
    /\ pc' = AfterInterrupt(pc)
    /\ idx' = 1
    /\ Quiet
    /\ UNCHANGED << threads, pending, fs, fs0, config, args, walkDirs, walkFiles, observers,
                    queues, envOps, changed, scanErr >>

\* except KeyboardInterrupt: for observer in observers: observer.stop()
StopObserver ==
    /\ pc = "stop"
    /\ idx <= Len(observers)
    /\ observers' = [observers EXCEPT ![idx] = "stopped"]
    /\ idx' = idx + 1
    /\ Quiet
    /\ UNCHANGED << threads, pending, fs, fs0, config, args, pc, walkDirs, walkFiles, queues,
                    interrupted, envOps, changed, scanErr >>

StopDone ==
    /\ pc = "stop"
    /\ idx > Len(observers)
    /\ pc' = "join"
    /\ idx' = 1
    /\ Quiet
    /\ UNCHANGED << threads, pending, fs, fs0, config, args, walkDirs, walkFiles, observers,
                    queues, interrupted, envOps, changed, scanErr >>

\* for observer in observers: observer.join(); join returns once the
\* observer's thread has ended, which it does after stop()
JoinObserver ==
    /\ pc = "join"
    /\ idx <= Len(observers)
    /\ observers[idx] = "stopped"
    /\ observers' = [observers EXCEPT ![idx] = "joined"]
    /\ idx' = idx + 1
    /\ Quiet
    /\ UNCHANGED << threads, pending, fs, fs0, config, args, pc, walkDirs, walkFiles, queues,
                    interrupted, envOps, changed, scanErr >>

\* main returns
JoinDone ==
    /\ pc = "join"
    /\ idx > Len(observers)
    /\ pc' = "done"
    /\ Quiet
    /\ UNCHANGED << threads, pending, fs, fs0, config, args, idx, walkDirs, walkFiles, observers,
                    queues, interrupted, envOps, changed, scanErr >>

(***************************************************************************)
(* MediaFileHandler and the observer threads                               *)
(***************************************************************************)
\* MediaFileHandler.on_created: the paths it passes to organize_file
on_created(e) == IF ~e.is_directory THEN << e.src_path >> ELSE <<>>

\* a variant of on_moved that organizes the path the file came from
on_movedSrc(e) == IF ~e.is_directory THEN << e.src_path >> ELSE <<>>

\* MediaFileHandler.on_moved
on_moved(e) == IF ~e.is_directory THEN << e.dest_path >> ELSE <<>>

\* FileSystemEventHandler.dispatch: the method for the event's type
HandlerCalls(e) ==
    IF e.type = "created" THEN on_created(e)
    ELSE IF e.type = "moved" THEN on_moved(e)
    ELSE <<>>

FileCreated(p) == [type |-> "created", is_directory |-> FALSE,
                   src_path |-> p, dest_path |-> <<>>]

DirCreated(p) == [type |-> "created", is_directory |-> TRUE,
                  src_path |-> p, dest_path |-> <<>>]

FileMoved(p, q) == [type |-> "moved", is_directory |-> FALSE,
                    src_path |-> p, dest_path |-> q]

DirMoved(p, q) == [type |-> "moved", is_directory |-> TRUE,
                   src_path |-> p, dest_path |-> q]

\* the created events an observer of root gets when file system f became g:
\* one for each new path below root, a directory before what is in it
CreatedEvents(f, g, root) ==
    [ k \in 1..Cardinality({ q \in DOMAIN g \ DOMAIN f : IsUnder(q, root) }) |->
        (IF IsDir(g, CHOOSE q \in DOMAIN g \ DOMAIN f :
                        /\ IsUnder(q, root)
                        /\ Cardinality({ r \in DOMAIN g \ DOMAIN f :
                                           IsUnder(r, root) /\ Len(r) < Len(q) }) = k - 1)
         THEN DirCreated(CHOOSE q \in DOMAIN g \ DOMAIN f :
                        /\ IsUnder(q, root)
                        /\ Cardinality({ r \in DOMAIN g \ DOMAIN f :
                                           IsUnder(r, root) /\ Len(r) < Len(q) }) = k - 1)
         ELSE FileCreated(CHOOSE q \in DOMAIN g \ DOMAIN f :
                        /\ IsUnder(q, root)
                        /\ Cardinality({ r \in DOMAIN g \ DOMAIN f :
                                           IsUnder(r, root) /\ Len(r) < Len(q) }) = k - 1)) ]

\* the queues once the running observers have been told of what an
\* organize_file call created below their roots
Notified(qs, f, g) ==
    [ i \in 1..Len(qs) |->
        IF observers[i] = "running"
        THEN qs[i] \o CreatedEvents(f, g, watch_paths[i])
        ELSE qs[i] ]

\* observer o takes its next event and runs the handler on it
Dispatch(o) ==
    /\ pc \notin {"done", "crashed"}
    /\ o \in 1..Len(observers)
    /\ observers[o] = "running"
    /\ queues[o] # <<>>
    /\ event' = Head(queues[o])
    /\ \E paths \in { HandlerCalls(Head(queues[o])) } :
           IF paths = <<>>
           THEN /\ fs' = fs /\ last' = NoCall /\ pending' = pending
                /\ queues' = [queues EXCEPT ![o] = Tail(queues[o])]
           ELSE \E rep \in { organize_file(fs, paths[1], args.dry_run, OutRoot) } :
                    /\ fs' = rep.fs /\ last' = Brief(rep)
                    /\ pending' = pending \ { paths[1] }
                    /\ queues' = Notified([queues EXCEPT ![o] = Tail(queues[o])],
                                          fs, rep.fs)
    /\ UNCHANGED << threads, fs0, config, args, pc, idx, walkDirs, walkFiles, observers,
                    interrupted, envOps, changed, scanErr >>

(***************************************************************************)
(* The world outside: files appear, move and vanish in the watched trees,  *)
(* and each running observer is told of what happens below its root        *)
(***************************************************************************)
\* observer i is running and watches p
Watches(i, p) == observers[i] = "running" /\ IsUnder(p, watch_paths[i])

\* something appeared at p: the created event ev
NotifyCreated(p, ev) ==
    /\ queues' = [ i \in 1..Len(observers) |->
                     IF Watches(i, p) THEN Append(queues[i], ev) ELSE queues[i] ]

\* p was renamed to q: a moved event where both ends are watched, a
\* created event where only the new path is
NotifyMoved(p, q, moved, created) ==
    /\ queues' = [ i \in 1..Len(observers) |->
                     IF Watches(i, p) /\ Watches(i, q) THEN Append(queues[i], moved)
                     ELSE IF Watches(i, q) THEN Append(queues[i], created)
                     ELSE queues[i] ]

EnvNewFiles ==
    { << <<cIn, nPng>>,        FileNode(dPngData, tJan5, TRUE) >>,
      << <<cIn2, nLowerJpg>>,  FileNode(dBadOriginal, tJan5, TRUE) >> }

EnvMoveTargets == { <<cIn, nOther>>, <<cIn2, nUpperJpg>> }

EnvNewDirs == { <<cIn2, nDirJpg>> }

EnvMovedDirs == { <<cIn, nDirJpg>> }

EnvEnabled == pc \in {"scan", "observe", "monitor"} /\ envOps < MaxEnv

EnvFrame ==
    /\ envOps' = envOps + 1
    /\ changed' = TRUE
    /\ Quiet
    /\ UNCHANGED << threads, fs0, config, args, pc, idx, walkDirs, walkFiles, observers,
                    interrupted, scanErr >>

EnvCreateFile(e) ==
    /\ EnvEnabled
    /\ e \in EnvNewFiles
    /\ ~Exists(fs, e[1])
    /\ fs' = (e[1] :> e[2]) @@ fs
    /\ NotifyCreated(e[1], FileCreated(e[1]))
    /\ pending' = pending \cup { e[1] }
    /\ EnvFrame

EnvMoveFile(p, q) ==
    /\ EnvEnabled
    /\ IsFile(fs, p)
    /\ ~IsUnder(p, OutRoot)
    /\ q \in EnvMoveTargets
    /\ ~Exists(fs, q)
    /\ fs' = [ r \in (DOMAIN fs \ {p}) \cup {q} |-> IF r = q THEN fs[p] ELSE fs[r] ]
    /\ NotifyMoved(p, q, FileMoved(p, q), FileCreated(q))
    /\ UNCHANGED pending
    /\ EnvFrame

EnvRemoveFile(p) ==
    /\ EnvEnabled
    /\ IsFile(fs, p)
    /\ ~IsUnder(p, OutRoot)
    /\ fs' = [ r \in DOMAIN fs \ {p} |-> fs[r] ]
    /\ UNCHANGED queues
    /\ UNCHANGED pending
    /\ EnvFrame

EnvCreateDir(d) ==
    /\ EnvEnabled
    /\ d \in EnvNewDirs
    /\ ~Exists(fs, d)
    /\ fs' = (d :> DirNode) @@ fs
    /\ NotifyCreated(d, DirCreated(d))
    /\ UNCHANGED pending
    /\ EnvFrame

\* an empty directory is renamed
EnvMoveDir(d, d2) ==
    /\ EnvEnabled
    /\ d \in EnvNewDirs \cup { <<cIn, cSub>> }
    /\ IsDir(fs, d)
    /\ Children(fs, d) = {}
    /\ d2 \in EnvMovedDirs
    /\ ~Exists(fs, d2)
    /\ fs' = [ r \in (DOMAIN fs \ {d}) \cup {d2} |-> IF r = d2 THEN fs[d] ELSE fs[r] ]
    /\ NotifyMoved(d, d2, DirMoved(d, d2), DirCreated(d2))
    /\ UNCHANGED pending
    /\ EnvFrame

Next ==
    \/ LoadConfig
    \/ CheckConfig
    \/ ScanNextRoot
    \/ \E d \in walkDirs : WalkListDir(d)
    \/ \E p \in walkFiles : ScanOrganize(p)
    \/ ScanDone
    \/ StartObserver
    \/ EnterMonitor
    \/ KeyboardInterrupt
    \/ StopObserver
    \/ StopDone
    \/ JoinObserver
    \/ JoinDone
    \/ \E o \in 1..Len(observers) : Dispatch(o)
    \/ \E e \in EnvNewFiles : EnvCreateFile(e)
    \/ \E p \in DOMAIN fs, q \in EnvMoveTargets : EnvMoveFile(p, q)
    \/ \E p \in DOMAIN fs : EnvRemoveFile(p)
    \/ \E d \in EnvNewDirs : EnvCreateDir(d)
    \/ \E d \in DOMAIN fs, d2 \in EnvMovedDirs : EnvMoveDir(d, d2)

Spec == Init /\ [][Next]_vars

(***************************************************************************)
(* organize_file called on its own: every name, every kind of data, on one *)
(* file, present or not                                                    *)
(***************************************************************************)
\* directories the output tree may hold at the start: none, or one where
\* a.jpg of January 5 2022 belongs
OccupiedStarts == { {}, { Join(OutDay, nLowerJpg) } }

InitCalls ==
    /\ \E n \in AllNames, d \in AllData, t \in Mtimes, r \in BOOLEAN,
          occ \in OccupiedStarts :
          fs = MkFs({ <<cIn>> } \cup UNION { Prefixes(q) : q \in occ },
                    { << <<cIn, n>>, FileNode(d, t, r) >> })
    /\ fs0 = fs
    /\ config = [loadable |-> TRUE, watch_paths |-> Watch(<< <<cIn>> >>),
                 output_path |-> GoodOut]
    /\ args \in [dry_run : BOOLEAN, scan_existing : {FALSE}]
    /\ pc = "calls"
    /\ idx = 1
    /\ walkDirs = {}
    /\ walkFiles = {}
    /\ observers = <<>>
    /\ queues = <<>>
    /\ last = NoCall
    /\ event = NoEvent
    /\ interrupted = FALSE
    /\ envOps = 0
    /\ changed = FALSE
    /\ scanErr = FALSE
    /\ pending = {}
    /\ threads = <<>>

\* organizer.organize_file(p)
Call(p) ==
    /\ pc = "calls"
    /\ \E rep \in { organize_file(fs, p, args.dry_run, OutRoot) } :
           /\ fs' = rep.fs
           /\ last' = Brief(rep)
    /\ event' = NoEvent
    /\ UNCHANGED << threads, pending, fs0, config, args, pc, idx, walkDirs, walkFiles,
                    observers, queues, interrupted, envOps, changed, scanErr >>

NextCalls == \E n \in AllNames : Call(<<cIn, n>>)

SpecCalls == InitCalls /\ [][NextCalls]_vars

(***************************************************************************)
(* Two observers in the monitor phase, their organize_file calls taken      *)
(* step by step: each observer is a thread of its own, both call the one   *)
(* handler and the one organizer, and nothing in organize_file is locked   *)
(***************************************************************************)
Idle == [at |-> "idle", path |-> <<>>, via |-> "none", date |-> NoDate,
         dest_dir |-> <<>>, dest_path |-> <<>>]

\* the locals of a call that has computed dest_path
AtCheck(path, r, out) ==
    [at |-> "check", path |-> path, via |-> r.via, date |-> r.date,
     dest_dir |-> DestDir(out, r.date), dest_path |-> DestPath(out, r.date, path)]

\* a call that has returned, and what it reports
Returned(rep) == [done |-> TRUE, th |-> Idle, rep |-> Brief(rep)]

Running(th) == [done |-> FALSE, th |-> th, rep |-> NoCall]

\* organize_file from get_file_date's result to dest_path
Started(f, path, out, r) ==
    IF r.raised
    THEN Returned(Report(path, "error", r.via, NoDate, <<>>, f))
    ELSE IF ~r.date.ok
    THEN Returned(Report(path, "no_date", r.via, NoDate, <<>>, f))
    ELSE Running(AtCheck(path, r, out))

\* organize_file from its first line to dest_path
StartCall(f, path, out) ==
    IF FileExt(path) \notin (ImageExtensions \cup VideoExtensions)
    THEN Returned(Report(path, "unsupported", "none", NoDate, <<>>, f))
    ELSE Started(f, path, out, get_file_date(f, path))

ThreadFrame ==
    UNCHANGED << fs0, config, args, pc, idx, walkDirs, walkFiles, observers,
                 interrupted, envOps, changed, scanErr, pending >>

\* the observer takes its next event; the handler calls organize_file,
\* which runs up to the line before the existence check
TBegin(o) ==
    /\ observers[o] = "running"
    /\ threads[o].at = "idle"
    /\ queues[o] # <<>>
    /\ \E paths \in { HandlerCalls(Head(queues[o])) } :
          IF paths = <<>>
          THEN threads' = threads /\ last' = NoCall
          ELSE \E st \in { StartCall(fs, paths[1], OutRoot) } :
                   /\ threads' = [threads EXCEPT ![o] = st.th]
                   /\ last' = st.rep
    /\ event' = Head(queues[o])
    /\ queues' = [queues EXCEPT ![o] = Tail(queues[o])]
    /\ fs' = fs
    /\ ThreadFrame

\* if os.path.exists(dest_path): log and return
TCheckDest(o) ==
    /\ threads[o].at = "check"
    /\ IF DestExists(fs, threads[o].dest_path)
       THEN /\ threads' = [threads EXCEPT ![o] = Idle]
            /\ last' = [path |-> threads[o].path, outcome |-> "skip_exists",
                        via |-> threads[o].via, date |-> threads[o].date,
                        dest |-> threads[o].dest_path]
       ELSE /\ threads' = [threads EXCEPT ![o].at = "dircheck"]
            /\ last' = NoCall
    /\ event' = NoEvent
    /\ UNCHANGED << fs, queues >>
    /\ ThreadFrame

\* if not os.path.exists(dest_dir) and not self.dry_run
TCheckDir(o) ==
    /\ threads[o].at = "dircheck"
    /\ threads' = [threads EXCEPT ![o].at =
                      IF NeedMakedirs(fs, threads[o].dest_dir, args.dry_run)
                      THEN "makedirs" ELSE "copy"]
    /\ Quiet
    /\ UNCHANGED << fs, queues >>
    /\ ThreadFrame

\* os.makedirs(dest_dir, exist_ok=True)
TMakedirs(o) ==
    /\ threads[o].at = "makedirs"
    /\ \E mk \in { Makedirs(fs, threads[o].dest_dir) } :
          /\ fs' = mk.fs
          /\ threads' = [threads EXCEPT ![o] = IF mk.raised THEN Idle
                                              ELSE [threads[o] EXCEPT !.at = "copy"]]
          /\ last' = IF mk.raised
                     THEN [path |-> threads[o].path, outcome |-> "error",
                           via |-> threads[o].via, date |-> threads[o].date,
                           dest |-> threads[o].dest_path]
                     ELSE NoCall
    /\ event' = NoEvent
    /\ UNCHANGED queues
    /\ ThreadFrame

\* if self.dry_run: log; else: shutil.copy2(file_path, dest_path); the call
\* returns
TCopy(o) ==
    /\ threads[o].at = "copy"
    /\ \E rep \in { CopyStep(threads[o].path, args.dry_run, threads[o],
                             threads[o].dest_path, [raised |-> FALSE, fs |-> fs]) } :
          /\ fs' = rep.fs
          /\ last' = Brief(rep)
    /\ threads' = [threads EXCEPT ![o] = Idle]
    /\ event' = NoEvent
    /\ UNCHANGED queues
    /\ ThreadFrame

\* the second file: beside a.jpg of January 5 2022 in the other root
SecondFiles ==
    { << <<cIn2, n>>, FileNode(d, t, TRUE) >> :
        n \in { nLowerJpg, nUpperJpg, nPng }, d \in { dDateTime, dNoExif }, t \in Mtimes }

\* what is in the output tree at the start
OutStarts == { {}, { <<cOut>> }, { << cOut, Str(2022) >> }, { OutDay } }

InitThreads ==
    /\ \E e \in SecondFiles, ds \in OutStarts :
          /\ fs = MkFs({ <<cIn>>, <<cIn2>> } \cup UNION { Prefixes(d) : d \in ds },
                       { fBoth, e })
          /\ queues = << << FileCreated(fBoth[1]) >>, << FileCreated(e[1]) >> >>
    /\ fs0 = fs
    /\ config = [loadable |-> TRUE, watch_paths |-> Watch(<< <<cIn>>, <<cIn2>> >>),
                 output_path |-> GoodOut]
    /\ args \in [dry_run : BOOLEAN, scan_existing : {FALSE}]
    /\ pc = "monitor"
    /\ idx = 3
    /\ walkDirs = {}
    /\ walkFiles = {}
    /\ observers = << "running", "running" >>
    /\ threads = << Idle, Idle >>
    /\ last = NoCall
    /\ event = NoEvent
    /\ interrupted = FALSE
    /\ envOps = 0
    /\ changed = FALSE
    /\ scanErr = FALSE
    /\ pending = {}

NextThreads ==
    \/ \E o \in 1..Len(threads) : TBegin(o)
    \/ \E o \in 1..Len(threads) : TCheckDest(o)
    \/ \E o \in 1..Len(threads) : TCheckDir(o)
    \/ \E o \in 1..Len(threads) : TMakedirs(o)
    \/ \E o \in 1..Len(threads) : TCopy(o)

SpecThreads == InitThreads /\ [][NextThreads]_vars

(***************************************************************************)
(* Properties                                                              *)
(***************************************************************************)
\* the step made an organize_file call that got as far as the destination
Placed(call) == call.outcome \in {"skip_exists", "dry_run", "copied"}

\* the part of file system f at and below the output root
OutTree(f) == { q \in DOMAIN f : q = OutRoot \/ IsUnder(q, OutRoot) }

SameOutTree(f, g) ==
    /\ OutTree(f) = OutTree(g)
    /\ \A q \in OutTree(f) : f[q] = g[q]

\* C1: a call that finds a file at its destination path leaves the whole
\* file system as it was and ends as a skip, not as an error; and no step of
\* the program ever changes or removes a file that is in the output tree, so
\* of two same-named, same-day sources the first to arrive stays.
C1_NoClobber ==
    [][ /\ (last'.dest # <<>> /\ IsFile(fs, last'.dest))
            => (fs' = fs /\ last'.outcome = "skip_exists" /\ pc' = pc)
        /\ \A q \in OutTree(fs) :
              IsFile(fs, q) => (q \in DOMAIN fs' /\ fs'[q] = fs[q])
      ]_vars

\* a second source with the same basename and day, and other bytes, was
\* skipped: the destination still holds the first one
C1_Witness ==
    /\ last.outcome = "skip_exists"
    /\ last.path = <<cIn, cSub, nLowerJpg>>
    /\ IsFile(fs, last.path) /\ fs[last.path].data = dDateTime
    /\ IsFile(fs, <<cIn, nLowerJpg>>)
    /\ fs[last.dest].data = dBoth

\* C2: under --dry-run the output tree stays what it was at the start
C2_DryRunPure == args.dry_run => SameOutTree(fs, fs0)

\* a watch event was handled in a dry run and ended as "would copy"
C2_Witness ==
    /\ args.dry_run
    /\ event.type \in {"created", "moved"}
    /\ last.outcome = "dry_run"
    /\ args.scan_existing

\* the supported files below root in file system f
Sources(f, root) ==
    { q \in DOMAIN f : /\ IsFile(f, q) /\ IsUnder(q, root)
                       /\ FileExt(q) \in ImageExtensions \cup VideoExtensions }

\* where file p of file system f belongs
DestOf(f, p) == DestPath(OutRoot, get_file_date(f, p).date, p)

\* the files of f that g does not have
NewFiles(f, g) == { q \in DOMAIN f \ DOMAIN g : IsFile(f, q) }

\* the first process_directory call has just returned, the input tree is as
\* it was and no call logged an error
FirstScanClean ==
    /\ pc = "scan" /\ idx = 2 /\ walkDirs = {} /\ walkFiles = {}
    /\ ~args.dry_run /\ ~changed /\ ~scanErr

\* then the files created are exactly the destinations that were missing,
\* every source has a file at its destination, and each created file holds
\* the bytes of a source that belongs there
FirstScanPost ==
    FirstScanClean =>
        /\ NewFiles(fs, fs0)
             = { DestOf(fs0, p) : p \in Sources(fs0, watch_paths[1]) } \ DOMAIN fs0
        /\ \A p \in Sources(fs0, watch_paths[1]) : IsFile(fs, DestOf(fs0, p))
        /\ \A q \in NewFiles(fs, fs0) :
              \E p \in Sources(fs0, watch_paths[1]) :
                  q = DestOf(fs0, p) /\ fs[q].data = fs0[p].data

\* main is in a second process_directory call on the root of the first
SecondScan ==
    /\ pc = "scan" /\ idx = 3
    /\ Len(watch_paths) = 2 /\ watch_paths[1] = watch_paths[2]

ChangedFiles(f, g) == { q \in DOMAIN f \cap DOMAIN g : IsFile(g, q) /\ f[q] # g[q] }

\* a number below 10000 written with four digits, one below 100 with two
FourDigits(n) ==
    << DigitChars[(n \div 1000) + 1], DigitChars[((n \div 100) % 10) + 1],
       DigitChars[((n \div 10) % 10) + 1], DigitChars[(n % 10) + 1] >>

TwoDigits(n) == << DigitChars[((n \div 10) % 10) + 1], DigitChars[(n % 10) + 1] >>

\* <output_path>/<year>/<YYYY-MM-DD>/<last component of path, as it is>
ExpectedDest(d, path) ==
    << cOut, FourDigits(d.year),
       FourDigits(d.year) \o <<"-">> \o TwoDigits(d.month) \o <<"-">> \o TwoDigits(d.day),
       path[Len(path)] >>

\* C4: a call that resolved date d creates no file but at
\* output_path/<d.year>/<d as YYYY-MM-DD>/<basename as written>, and changes
\* no file; that path is the destination it reports, it skips exactly when
\* something is there already, and after a copy the file is there with the
\* bytes of the source.
C4_PlacementPath ==
    [][ last'.outcome \notin {"none", "unsupported"} =>
          /\ ChangedFiles(fs', fs) = {}
          /\ last'.date.ok =>
               /\ NewFiles(fs', fs) \subseteq { ExpectedDest(last'.date, last'.path) }
               /\ Placed(last') =>
                    /\ last'.dest = ExpectedDest(last'.date, last'.path)
                    /\ (last'.outcome = "skip_exists") = Exists(fs, last'.dest)
               /\ last'.outcome = "copied" =>
                    /\ IsFile(fs', ExpectedDest(last'.date, last'.path))
                    /\ fs'[last'.dest].data = fs[last'.path].data
          /\ ~last'.date.ok => NewFiles(fs', fs) = {}
      ]_vars

\* a.JPG of 2023-06-15 was copied under its own name
C4_Witness ==
    /\ last.outcome = "copied"
    /\ last.path = <<cIn, nUpperJpg>>
    /\ last.dest = << cOut, <<"2","0","2","3">>,
                      <<"2","0","2","3","-","0","6","-","1","5">>, nUpperJpg >>
    /\ IsFile(fs, last.dest)

\* what the tag strings of the model say, read by hand
ExifTable(s) ==
    IF s = sExifJan5 THEN MkDate(2022, 1, 5, 8, 30, 0)
    ELSE IF s = sExifJan5Late THEN MkDate(2022, 1, 5, 21, 0, 0)
    ELSE IF s = sExifDec31 THEN MkDate(2021, 12, 31, 23, 59, 0)
    ELSE NoDate

VideoTable(s) == IF s = sVideoDec31 THEN MkDate(2021, 12, 31, 23, 59, 0) ELSE NoDate

MtimeTable(t) ==
    IF t = tJun15 THEN MkDate(2023, 6, 15, 10, 0, 0) ELSE MkDate(2022, 1, 5, 23, 59, 59)

ImageNames == { nLowerJpg, nUpperJpg, nPng }

VideoNames == { nMp4, nTwoDots }

\* the tag an image or a video is dated by, <<>> when there is none to read
SelectedTag(node, name) ==
    IF ~node.readable THEN <<>>
    ELSE IF name \in ImageNames /\ node.data.image /\ node.data.getexif
    THEN (IF TagDateTimeOriginal \in DOMAIN node.data.exif
          THEN << "exif", node.data.exif[TagDateTimeOriginal] >>
          ELSE IF TagDateTime \in DOMAIN node.data.exif
          THEN << "exif", node.data.exif[TagDateTime] >>
          ELSE <<>>)
    ELSE IF name \in VideoNames /\ node.data.probe /\ node.data.hastags
            /\ "creation_time" \in DOMAIN node.data.vtags
    THEN << "video", node.data.vtags["creation_time"] >>
    ELSE <<>>

TagDate(tag) ==
    IF tag = <<>> THEN NoDate
    ELSE IF tag[1] = "exif" THEN ExifTable(tag[2]) ELSE VideoTable(tag[2])

\* the date and where it comes from
ExpectedDate(node, tag) ==
    IF TagDate(tag).ok THEN << tag[1], TagDate(tag) >>
    ELSE << "mtime", MtimeTable(node.mtime) >>

\* C5: for an existing supported file the date is DateTimeOriginal when an
\* image has that tag, else DateTime when it has that one, creation_time for
\* a video; and the modification time when the container cannot be read,
\* the tag is absent or the selected tag does not parse.
C5_DateResolution ==
    (last.outcome \notin {"none", "unsupported"} /\ IsFile(fs, last.path)) =>
        << last.via, last.date >>
          = ExpectedDate(fs[last.path], SelectedTag(fs[last.path], Basename(last.path)))

\* an image with both tags was dated by DateTimeOriginal
C5_Witness ==
    /\ last.outcome = "copied"
    /\ IsFile(fs, last.path) /\ fs[last.path].data = dBoth
    /\ last.via = "exif"
    /\ last.date = MkDate(2022, 1, 5, 8, 30, 0)

\* the names of the model with an extension of the table
SupportedNames == { nLowerJpg, nUpperJpg, nPng, nMp4, nTwoDots }

\* C6: a call on a path whose lower-cased extension is not in the table
\* (a name with no extension among them) is reported as unsupported, changes
\* nothing, resolves no date and raises nothing, whether the file exists or
\* not; a name whose extension matches after lower-casing is supported.
C6_UnsupportedNoOp ==
    [][ last'.outcome # "none" =>
          /\ (last'.outcome = "unsupported") = (Basename(last'.path) \notin SupportedNames)
          /\ last'.outcome = "unsupported" =>
                (fs' = fs /\ pc' = pc /\ last'.via = "none" /\ ~last'.date.ok)
      ]_vars

\* a call on a missing path without an extension did nothing, and a.JPG is
\* copied
C6_Witness ==
    /\ last.outcome = "unsupported"
    /\ last.path = <<cIn, nNoExt>>
    /\ ~Exists(fs, last.path)
    /\ \E q \in DOMAIN fs : IsFile(fs, q) /\ IsUnder(q, <<cOut>>) /\ Basename(q) = nUpperJpg

\* C7: a file-created event makes the handler organize the created path; a
\* file-moved event makes it organize the path the file moved to, not the
\* one it came from; a directory event makes it call nothing.
C7_EventDispatch ==
    event.type # "none" =>
        /\ event.is_directory => last = NoCall
        /\ (~event.is_directory /\ event.type = "created") =>
              (last.outcome # "none" /\ last.path = event.src_path)
        /\ (~event.is_directory /\ event.type = "moved") =>
              (last.outcome # "none" /\ last.path = event.dest_path
               /\ last.path # event.src_path)

\* a file was renamed inside a watched tree and copied from its new path
C7_Witness ==
    /\ event.type = "moved" /\ ~event.is_directory
    /\ last.path = event.dest_path
    /\ last.outcome = "copied"
    /\ Basename(last.dest) = Basename(event.dest_path)

ReadableSources(f, root) == { q \in Sources(f, root) : f[q].readable }

\* the first process_directory call has returned on an input tree that is
\* as it was: every source that can be read has its file, and the files
\* created are those of the readable sources
ScanIsolated ==
    (pc = "scan" /\ idx = 2 /\ walkDirs = {} /\ walkFiles = {}
     /\ ~args.dry_run /\ ~changed) =>
        /\ \A p \in ReadableSources(fs0, watch_paths[1]) : IsFile(fs, DestOf(fs0, p))
        /\ NewFiles(fs, fs0)
             = { DestOf(fs0, p) : p \in ReadableSources(fs0, watch_paths[1]) } \ DOMAIN fs0

ConfigFatal ==
    \/ ~config.loadable
    \/ ~config.watch_paths.present
    \/ config.watch_paths.value = <<>>
    \/ ~config.output_path.present

\* C9: with such a configuration main returns from its first lines: it
\* never scans, never creates an observer, makes no organize_file call and
\* the file system stays as it was.
C9_FatalConfig ==
    ConfigFatal =>
        /\ pc \in {"start", "loaded", "done"}
        /\ (pc = "loaded" => config.loadable)
        /\ observers = <<>> /\ queues = <<>>
        /\ walkDirs = {} /\ walkFiles = {}
        /\ last = NoCall
        /\ fs = fs0

\* main returned on a configuration without output_path
C9_Witness ==
    /\ pc = "done"
    /\ config.loadable /\ ~config.output_path.present /\ watch_paths # <<>>
    /\ observers = <<>>

\* C10: once KeyboardInterrupt was raised, at whatever point of main, main
\* is not left (by a return or by the exception) before every observer that
\* was started has been stopped and joined.
C10_Shutdown ==
    (interrupted /\ pc \in {"done", "crashed"}) =>
        \A i \in 1..Len(observers) : observers[i] = "joined"

\* C11: whatever the interleaving of two observers' organize_file calls, no
\* step changes or removes a file that exists: a destination, once written,
\* is not written again.
C11_WrittenOnce ==
    [][ \A q \in DOMAIN fs :
          IsFile(fs, q) => (q \in DOMAIN fs' /\ fs'[q] = fs[q]) ]_vars

\* C12: with --scan-existing, once main is in the monitor loop and no
\* observer has an event left, every supported file that was created under
\* a watch root since the scan began, and is still there, has been passed to
\* organize_file.
C12_NoFileLost ==
    (args.scan_existing /\ pc = "monitor" /\ \A o \in 1..Len(queues) : queues[o] = <<>>) =>
        \A p \in pending :
            ~ /\ IsFile(fs, p)
              /\ FileExt(p) \in ImageExtensions \cup VideoExtensions
              /\ \E i \in 1..Len(watch_paths) : IsUnder(p, watch_paths[i])

\* the call was on a file that can be opened and got a date for it
Decided(call, f) == call.outcome # "none" /\ call.date.ok /\ CanOpen(f, call.path)

\* C13 as stated: the call skips exactly when a regular file is at the
\* destination path.
C13_SkipIffRegularFile ==
    [][ Decided(last', fs) =>
          (last'.outcome = "skip_exists")
             = IsFile(fs, ExpectedDest(last'.date, last'.path)) ]_vars

\* C13 (amended): the call skips exactly when something, a file or a
\* directory, is at the destination path; when nothing is there it copies
\* (or, in a dry run, logs the copy).
C13_SkipIffExists ==
    [][ Decided(last', fs) =>
          /\ (last'.outcome = "skip_exists")
                = Exists(fs, ExpectedDest(last'.date, last'.path))
          /\ ~Exists(fs, ExpectedDest(last'.date, last'.path)) =>
                /\ last'.outcome = (IF args.dry_run THEN "dry_run" ELSE "copied")
                /\ ~args.dry_run => IsFile(fs', ExpectedDest(last'.date, last'.path))
      ]_vars

\* a call skipped because a directory has the name of its destination
C13_Witness ==
    /\ last.outcome = "skip_exists"
    /\ last.dest = Join(OutDay, nLowerJpg)
    /\ IsDir(fs, last.dest)
    /\ CanOpen(fs, last.path)

\* C14: when a call that is not a dry run is about to copy, the destination
\* directory and all its ancestors exist; and of two observers' calls on
\* readable files, whatever their interleaving, none ends in an error, also
\* when both found the directory missing and both call os.makedirs.
C14_DirBeforeCopy ==
    [][ /\ \A o \in 1..Len(threads) :
              (threads[o].at = "copy" /\ ~args.dry_run) =>
                  \A d \in Prefixes(threads[o].dest_dir) : IsDir(fs, d)
        /\ last'.outcome # "error"
      ]_vars

\* two calls copied a.jpg and p.png into a day's directory that neither the
\* output root nor any of its ancestors existed for
C14_Witness ==
    /\ ~Exists(fs0, <<cOut>>)
    /\ IsFile(fs, Join(OutDay, nLowerJpg))
    /\ IsFile(fs, Join(OutDay, nPng))
    /\ last.outcome = "copied"
    /\ \A o \in 1..Len(threads) : threads[o].at = "idle"

\* the files the program has put into the output tree
Copies == { q \in NewFiles(fs, fs0) : IsUnder(q, OutRoot) }

\* C15: no step of the program (a scan step, a dispatched event) moves,
\* removes or changes a file it did not create itself, wherever the file
\* lies: in a watched tree, inside the output tree, or at its own
\* destination path.
C15_SourcesUntouched ==
    [][ envOps' = envOps =>
          \A q \in DOMAIN fs \ Copies :
              IsFile(fs, q) => (q \in DOMAIN fs' /\ fs'[q] = fs[q]) ]_vars

\* with the output root inside the watched root: a file lying at its own
\* destination was skipped, after a.jpg from inside the output tree had been
\* copied to where it belongs, and both are as they were
C15_Witness ==
    /\ OutRoot = <<cIn, cOut>>
    /\ last.outcome = "skip_exists"
    /\ last.path = fSelf[1] /\ last.dest = last.path
    /\ fs[last.path] = fs0[last.path]
    /\ \E q \in NewFiles(fs, fs0) : IsUnder(q, OutRoot) /\ fs[q].data = dBoth
    /\ fs[fNested[1]] = fs0[fNested[1]]

\* the destinations of the supported files the run started with
OriginalDests ==
    { DestOf(fs0, p) : p \in { q \in DOMAIN fs0 :
          IsFile(fs0, q) /\ FileExt(q) \in ImageExtensions \cup VideoExtensions } }

\* while nothing was changed from outside there are no more copies than
\* destinations of the files the run started with
CopiesBounded == ~changed => Cardinality(Copies) <= Cardinality(OriginalDests)

\* C17: a file the program puts into the output tree resolves to the path
\* it is at; when it is organized in its turn (the scan walks into the
\* output tree, or the created event of the copy is dispatched) it is
\* skipped at that path and nothing is created; the copies are no more than
\* the distinct destinations of the original files.
C17_NoCopyCascade ==
    [][ /\ \A q \in NewFiles(fs', fs) : IsUnder(q, OutRoot) => DestOf(fs', q) = q
        /\ CopiesBounded
        /\ last'.path \in Copies =>
              (last'.outcome = "skip_exists" /\ last'.dest = last'.path /\ fs' = fs)
      ]_vars

\* the observer of the watched root was told of a copy made below it and
\* the call on the copy skipped it
C17_Witness ==
    /\ OutRoot = <<cIn, cOut>>
    /\ event.type = "created" /\ ~event.is_directory
    /\ event.src_path \in Copies
    /\ last.path = event.src_path
    /\ last.outcome = "skip_exists"

====
